---- MODULE Spec2Model ----
(***************************************************************************)
(* Model of the TSP grading harness: the scorer and grading run of         *)
(* tools/tester.py (PerformanceTestCase) and the benchmark dataset         *)
(* pipeline of tools/generate_data.py (gen_random_graph,                   *)
(* gen_best_solution, gen_datum, gen_dataset).                             *)
(***************************************************************************)
EXTENDS Integers, Sequences, FiniteSets, TLC

VARIABLES
    call,         \* scorer: the public operation applied and its outcome
    run,          \* PerformanceTestCase.run: loop position, scores, warnings, result
    best,         \* gen_best_solution: loop position, best_cost/best_path/best_method
    gen           \* gen_dataset: staging directory, workers, merge

vars == <<call, run, best, gen>>

(***************************************************************************)
(* Bounds of the model.                                                    *)
(***************************************************************************)
MaxNodes == 3
MaxWeight == 1

\* n_nodes_range's lower end: the smallest graph the pipeline generates
MinNodes == 2

(***************************************************************************)
(* IEEE doubles as numpy computes them: a finite value is an exact         *)
(* fraction num/den (den > 0, lowest terms), plus +inf, -inf and NaN.      *)
(***************************************************************************)
Abs(x) == IF x < 0 THEN -x ELSE x

RECURSIVE Gcd(_, _)
Gcd(a, b) == IF b = 0 THEN a ELSE Gcd(b, a % b)

Frac(n, d) ==
    LET s == IF d < 0 THEN -1 ELSE 1
        g == Gcd(Abs(n), Abs(d))
    IN  [kind |-> "fin", num |-> (s * n) \div g, den |-> (s * d) \div g]

Fin(n) == [kind |-> "fin", num |-> n, den |-> 1]
Inf == [kind |-> "inf", num |-> 0, den |-> 1]
NegInf == [kind |-> "ninf", num |-> 0, den |-> 1]
NaN == [kind |-> "nan", num |-> 0, den |-> 1]

isnan(x) == x.kind = "nan"
isinf(x) == x.kind \in {"inf", "ninf"}
isfinite(x) == x.kind = "fin"

\* x + y
FAdd(x, y) ==
    IF isnan(x) \/ isnan(y) THEN NaN
    ELSE IF isinf(x) /\ isinf(y) THEN (IF x.kind = y.kind THEN x ELSE NaN)
    ELSE IF isinf(x) THEN x
    ELSE IF isinf(y) THEN y
    ELSE Frac(x.num * y.den + y.num * x.den, x.den * y.den)

FNeg(x) ==
    IF x.kind = "inf" THEN NegInf
    ELSE IF x.kind = "ninf" THEN Inf
    ELSE IF isnan(x) THEN NaN
    ELSE Frac(-x.num, x.den)

\* x / y on numpy floats: a zero divisor gives an infinity or NaN, never an error
FDiv(x, y) ==
    IF isnan(x) \/ isnan(y) THEN NaN
    ELSE IF isinf(x) THEN
        (IF isinf(y) THEN NaN
         ELSE IF y.num < 0 THEN FNeg(x) ELSE x)
    ELSE IF isinf(y) THEN Fin(0)
    ELSE IF y.num = 0 THEN
        (IF x.num = 0 THEN NaN ELSE IF x.num > 0 THEN Inf ELSE NegInf)
    ELSE Frac(x.num * y.den, x.den * y.num)

FMul(x, k) ==
    IF isfinite(x) THEN Frac(x.num * k, x.den) ELSE x

\* x < y; any comparison with NaN is false
FLess(x, y) ==
    IF isnan(x) \/ isnan(y) THEN FALSE
    ELSE IF x.kind = "ninf" THEN y.kind # "ninf"
    ELSE IF y.kind = "inf" THEN x.kind # "inf"
    ELSE IF x.kind = "inf" \/ y.kind = "ninf" THEN FALSE
    ELSE x.num * y.den < y.num * x.den

\* Mutant: np.nan_to_num with numpy's default nan=0.0 in place of nan=1.0.
nan_to_num_default_nan(x) ==
    IF isnan(x) THEN Fin(0)
    ELSE IF isinf(x) THEN Fin(0)
    ELSE x

\* np.nan_to_num(x, nan=1.0, posinf=0.0, neginf=0.0)
nan_to_num(x) ==
    IF isnan(x) THEN Fin(1)
    ELSE IF isinf(x) THEN Fin(0)
    ELSE x

(***************************************************************************)
(* Python values and call outcomes.  A tour-like value is a sequence of    *)
(* integers or None; a call either returns a value or raises.              *)
(***************************************************************************)
PySeq(s) == [kind |-> "seq", seq |-> s]
PyNone == [kind |-> "none", seq |-> <<>>]

Ret(v) == [exc |-> "none", val |-> v]
Raise(e) == [exc |-> e, val |-> NaN]
Raised(o) == o.exc # "none"

(***************************************************************************)
(* Graphs: an adjacency matrix is [n, w] with w[<<i, j>>] the weight of    *)
(* the edge i -> j.  numpy indexing accepts -n..n-1 (a negative index      *)
(* counts from the end) and raises IndexError outside.                     *)
(***************************************************************************)
InRange(n, i) == -n <= i /\ i < n
Wrap(n, i) == IF i < 0 THEN i + n ELSE i
Weight(adj, i, j) == adj.w[<<Wrap(adj.n, i), Wrap(adj.n, j)>>]

(***************************************************************************)
(* Inputs.  Weights are small integers, +inf ("no usable edge") and NaN.   *)
(* A graph has +inf on its diagonal, one base weight on every edge and one *)
(* directed edge carrying any weight.  A tour-like value is a closed       *)
(* permutation tour, one of them damaged in one place, or None.            *)
(***************************************************************************)
Weights == {Fin(x) : x \in (-1)..MaxWeight} \cup {Inf, NaN}

Nodes(n) == 0..(n - 1)

MkGraph(n, b, e, s) ==
    [n |-> n,
     w |-> [p \in Nodes(n) \X Nodes(n) |->
                IF p[1] = p[2] THEN Inf ELSE IF p = e THEN s ELSE Fin(b)]]

GraphsOf(n) ==
    {MkGraph(n, b, e, s) :
        b \in 0..MaxWeight,
        e \in {p \in Nodes(n) \X Nodes(n) : p[1] # p[2]},
        s \in Weights}

Graphs == UNION {GraphsOf(n) : n \in MinNodes..MaxNodes}

ClosedTours(n) ==
    {t \in [1..(n + 1) -> Nodes(n)] :
        /\ t[1] = t[n + 1]
        /\ \A i, j \in 1..n : i # j => t[i] # t[j]}

IdTour(n) == [k \in 1..(n + 1) |-> IF k = n + 1 THEN 0 ELSE k - 1]

DamagedTours(n) ==
    {<<>>,                                   \* empty
     SubSeq(IdTour(n), 1, n),                \* too short
     Append(IdTour(n), 1),                   \* too long
     [IdTour(n) EXCEPT ![n + 1] = 1],        \* not closed
     [IdTour(n) EXCEPT ![2] = 0],            \* a node twice
     [IdTour(n) EXCEPT ![n] = -1],           \* node n-1 written as -1
     [IdTour(n) EXCEPT ![n] = n],            \* index past the end
     [IdTour(n) EXCEPT ![n] = -(n + 1)]}     \* index before the start

Tours(n) == ClosedTours(n) \cup DamagedTours(n)

TourValuesOf(n) == {PySeq(t) : t \in Tours(n)} \cup {PyNone}

TourValuesTable == [n \in MinNodes..MaxNodes |-> TourValuesOf(n)]

TourValues(n) == TourValuesTable[n]

(***************************************************************************)
(* PerformanceTestCase.get_path_cost                                       *)
(***************************************************************************)
RECURSIVE PathCostFrom(_, _, _, _)
PathCostFrom(adj, s, k, cost) ==
    IF k >= Len(s) THEN Ret(cost)
    ELSE IF ~InRange(adj.n, s[k]) \/ ~InRange(adj.n, s[k + 1])
         THEN Raise("IndexError")
    ELSE LET weight == Weight(adj, s[k], s[k + 1])
         IN  IF isnan(weight) THEN Ret(Inf)
             ELSE PathCostFrom(adj, s, k + 1, FAdd(cost, weight))

get_path_cost(adj, path) ==
    IF path.kind = "none" THEN Raise("TypeError")   \* None[:-1]
    ELSE PathCostFrom(adj, path.seq, 1, Fin(0))

(***************************************************************************)
(* PerformanceTestCase.is_hamiltonian_cycle; the outcome's val is a        *)
(* boolean.                                                                *)
(***************************************************************************)
RetB(b) == [exc |-> "none", val |-> b]
RaiseB(e) == [exc |-> e, val |-> FALSE]

RECURSIVE EdgesFiniteFrom(_, _, _)
EdgesFiniteFrom(adj, s, k) ==
    IF k >= Len(s) THEN RetB(TRUE)
    ELSE IF ~InRange(adj.n, s[k]) \/ ~InRange(adj.n, s[k + 1])
         THEN RaiseB("IndexError")
    ELSE LET weight == Weight(adj, s[k], s[k + 1])
         IN  IF isnan(weight) \/ isinf(weight) \/ ~isfinite(weight)
             THEN RetB(FALSE)
             ELSE EdgesFiniteFrom(adj, s, k + 1)

unique_nodes(s) == {s[k] : k \in 1..(Len(s) - 1)}

is_hamiltonian_cycle(adj, path) ==
    IF path.kind = "none" THEN RaiseB("TypeError")   \* len(None)
    ELSE LET s == path.seq IN
         IF Len(s) # adj.n + 1 THEN RetB(FALSE)
         ELSE IF s[1] # s[Len(s)] THEN RetB(FALSE)
         ELSE IF Cardinality(unique_nodes(s)) # adj.n THEN RetB(FALSE)
         ELSE EdgesFiniteFrom(adj, s, 1)

(***************************************************************************)
(* PerformanceTestCase.compute_score; warn says that the "not a            *)
(* Hamiltonian cycle" warning was added to self._warnings.                 *)
(***************************************************************************)
NotHamiltonian == "The solution is not a Hamiltonian cycle."

compute_score(adj, solution, target_solution) ==
    LET hc == is_hamiltonian_cycle(adj, solution)
        obj_cost == get_path_cost(adj, solution)
        target_cost == get_path_cost(adj, target_solution)
        normalized_cost == FDiv(target_cost.val, obj_cost.val)
    IN  IF Raised(hc) THEN [exc |-> hc.exc, val |-> NaN, warn |-> FALSE]
        ELSE IF ~hc.val THEN [exc |-> "none", val |-> Fin(0), warn |-> TRUE]
        ELSE IF Raised(obj_cost)
             THEN [exc |-> obj_cost.exc, val |-> NaN, warn |-> FALSE]
        ELSE IF Raised(target_cost)
             THEN [exc |-> target_cost.exc, val |-> NaN, warn |-> FALSE]
        ELSE [exc |-> "none", val |-> nan_to_num(normalized_cost), warn |-> FALSE]

(***************************************************************************)
(* The scorer's public operations, each applied once to inputs drawn from  *)
(* the sets above.                                                         *)
(***************************************************************************)
IdleCall(adj) ==
    [op |-> "idle", adj |-> adj, solution |-> PyNone, target |-> PyNone,
     exc |-> "none", ok |-> FALSE, num |-> NaN, warn |-> FALSE]

NoGraph == [n |-> 0, w |-> <<>>]

IdleRun == [pc |-> "idle"]
IdleBest == [pc |-> "idle"]
IdleGen == [pc |-> "idle"]

Call_is_hamiltonian_cycle ==
    /\ call.op = "idle"
    /\ \E path \in TourValues(call.adj.n) :
         LET o == is_hamiltonian_cycle(call.adj, path)
         IN  call' = [call EXCEPT !.op = "is_hamiltonian_cycle",
                                  !.solution = path,
                                  !.exc = o.exc, !.ok = o.val]
    /\ UNCHANGED <<run, best, gen>>

Call_get_path_cost ==
    /\ call.op = "idle"
    /\ \E path \in TourValues(call.adj.n) :
         LET o == get_path_cost(call.adj, path)
         IN  call' = [call EXCEPT !.op = "get_path_cost",
                                  !.solution = path,
                                  !.exc = o.exc, !.num = o.val]
    /\ UNCHANGED <<run, best, gen>>

Call_compute_score ==
    /\ call.op = "idle"
    /\ \E solution \in TourValues(call.adj.n),
          target_solution \in TourValues(call.adj.n) :
         LET o == compute_score(call.adj, solution, target_solution)
         IN  call' = [call EXCEPT !.op = "compute_score",
                                  !.solution = solution,
                                  !.target = target_solution,
                                  !.exc = o.exc, !.num = o.val,
                                  !.warn = o.warn]
    /\ UNCHANGED <<run, best, gen>>

InitScore ==
    /\ call \in {IdleCall(adj) : adj \in Graphs}
    /\ run = IdleRun
    /\ best = IdleBest
    /\ gen = IdleGen

NextScore ==
    \/ Call_is_hamiltonian_cycle
    \/ Call_get_path_cost
    \/ Call_compute_score

SpecScore == InitScore /\ [][NextScore]_vars

(***************************************************************************)
(* Claims about the scorer (checked under SpecScore).                      *)
(***************************************************************************)
FEq(x, y) == ~isnan(x) /\ ~isnan(y) /\ x = y

\* The candidate of the call was accepted by is_hamiltonian_cycle, and both
\* path costs were computed.
CandidateValid ==
    /\ ~Raised(is_hamiltonian_cycle(call.adj, call.solution))
    /\ is_hamiltonian_cycle(call.adj, call.solution).val
    /\ ~Raised(get_path_cost(call.adj, call.target))

CandidateRejected ==
    /\ ~Raised(is_hamiltonian_cycle(call.adj, call.solution))
    /\ ~is_hamiltonian_cycle(call.adj, call.solution).val

NonNegative(adj) ==
    \A p \in DOMAIN adj.w : ~FLess(adj.w[p], Fin(0))

CandCost == get_path_cost(call.adj, call.solution).val
RefCost == get_path_cost(call.adj, call.target).val

\* C1 as stated: compute_score returns 0.0 for a rejected candidate, 1.0 for
\* a valid candidate whose cost equals the reference cost, and more than 1.0
\* for a valid candidate whose cost is strictly less than the reference cost,
\* a candidate cost of 0 and an infinite reference cost included (stated
\* here for graphs without negative weights).
C1_AsStated ==
    call.op = "compute_score" /\ NonNegative(call.adj) =>
        /\ CandidateRejected => call.exc = "none" /\ call.num = Fin(0)
        /\ CandidateValid /\ FEq(CandCost, RefCost) =>
               call.exc = "none" /\ call.num = Fin(1)
        /\ CandidateValid /\ FLess(CandCost, RefCost) =>
               call.exc = "none" /\ FLess(Fin(1), call.num)

\* C1 amended: compute_score returns 0.0 for a rejected candidate, 1.0 for a
\* valid candidate whose cost equals the reference cost, more than 1.0 for a
\* valid candidate whose cost is strictly positive and strictly less than a
\* finite reference cost, and 0.0 for a valid candidate of non-negative cost
\* below an infinite reference cost or of cost 0 below a positive one.
C1_ScoreLevels ==
    call.op = "compute_score" =>
        LET hc == is_hamiltonian_cycle(call.adj, call.solution)
            cand == get_path_cost(call.adj, call.solution)
            ref == get_path_cost(call.adj, call.target)
            rejected == ~Raised(hc) /\ ~hc.val
            valid == ~Raised(hc) /\ hc.val /\ ~Raised(ref)
        IN  /\ rejected => call.exc = "none" /\ call.num = Fin(0)
            /\ valid /\ FEq(cand.val, ref.val) =>
                   call.exc = "none" /\ call.num = Fin(1)
            /\ valid /\ FLess(Fin(0), cand.val) /\ FLess(cand.val, ref.val)
                   /\ isfinite(ref.val) =>
                   call.exc = "none" /\ FLess(Fin(1), call.num)
            /\ valid /\ ~FLess(cand.val, Fin(0)) /\ ref.val = Inf =>
                   call.exc = "none" /\ call.num = Fin(0)
            /\ valid /\ cand.val = Fin(0) /\ FLess(Fin(0), ref.val) =>
                   call.exc = "none" /\ call.num = Fin(0)

\* A valid candidate strictly cheaper than a finite reference was scored
\* above 1.0.
C1_Witness ==
    /\ call.op = "compute_score"
    /\ CandidateValid
    /\ FLess(Fin(0), CandCost) /\ FLess(CandCost, RefCost) /\ isfinite(RefCost)
    /\ FLess(Fin(1), call.num)

\* The four rejection conditions of is_hamiltonian_cycle, read off a tour
\* whose entries all index the matrix.
Rejectable(adj, s) ==
    \/ Len(s) # adj.n + 1
    \/ s[1] # s[Len(s)]
    \/ Cardinality({s[k] : k \in 1..adj.n}) # adj.n
    \/ \E k \in 1..(Len(s) - 1) :
          /\ InRange(adj.n, s[k]) /\ InRange(adj.n, s[k + 1])
          /\ ~isfinite(Weight(adj, s[k], s[k + 1]))

\* C2: for every tour that is a sequence of integers, is_hamiltonian_cycle
\* returns a boolean: false when the length is not n+1, the ends differ, the
\* first n entries are not n distinct values or a traversed edge is NaN or
\* infinite, and true otherwise.
C2_ReturnsBoolean ==
    call.op = "is_hamiltonian_cycle" /\ call.solution.kind = "seq" =>
        /\ call.exc = "none"
        /\ call.ok = ~Rejectable(call.adj, call.solution.seq)

\* C2 restricted to tours whose entries all index the matrix (-n..n-1).
C2_InRangeOnly ==
    call.op = "is_hamiltonian_cycle" /\ call.solution.kind = "seq"
        /\ (\A k \in 1..Len(call.solution.seq) :
                InRange(call.adj.n, call.solution.seq[k])) =>
        /\ call.exc = "none"
        /\ call.ok = ~Rejectable(call.adj, call.solution.seq)

\* C11: a tour that is_hamiltonian_cycle accepts has, in its first n
\* entries, exactly the node indices 0..n-1 (no negative index, none >= n),
\* and compute_score gives a non-zero score only to such tours.
C11_AcceptedIsPermutation ==
    LET s == call.solution.seq
        visits == {s[k] : k \in 1..call.adj.n}
    IN  /\ call.op = "is_hamiltonian_cycle" /\ call.exc = "none" /\ call.ok =>
               Len(s) = call.adj.n + 1 /\ visits = Nodes(call.adj.n)
        /\ call.op = "compute_score" /\ call.exc = "none"
               /\ call.num # Fin(0) =>
               Len(s) = call.adj.n + 1 /\ visits = Nodes(call.adj.n)

(***************************************************************************)
(* PerformanceTestCase.run.  The dataset has n_records records; record i   *)
(* is a graph and its expected solution, and the candidate's behaviour on  *)
(* it is to raise in its constructor, to raise in its solving method, or   *)
(* to return a tour-like value.  One action is one pass of the loop body   *)
(* or the code after the loop.  constructed, solved and failed_at record   *)
(* what the run did, for the claims.                                       *)
(***************************************************************************)
MaxRecords == 3

CandidateErrors == {"ValueError", "RecursionError"}

SmallGraphs(n) == {MkGraph(n, 1, <<0, 1>>, s) : s \in Weights}

RunGraphs == SmallGraphs(MinNodes)

NoMessage == [kind |-> "", err |-> "", warnings |-> {}]

\* TestResult(self.name, percent_value, message)
TestResult(percent_value, message) ==
    [percent_value |-> percent_value, message |-> message]

NoResult == TestResult(NaN, NoMessage)

InitialRun(n) ==
    [pc |-> "loop", n_records |-> n, i |-> 0, scores |-> <<>>,
     warnings |-> {}, result |-> NoResult, exc |-> "none",
     constructed |-> 0, solved |-> 0, failed_at |-> -1,
     raised_on |-> <<>>]

\* Mutant: the failing record is skipped and the loop goes on.
OnCandidateError_continue(r, where, e) ==
    [r EXCEPT !.i = @ + 1, !.failed_at = r.i]

\* except Exception as e: return TestResult(self.name, 0.0, message=...)
\* where is "instantiation" or "test"; the loop is left
OnCandidateError(r, where, e) ==
    [r EXCEPT !.pc = "returned",
              !.result = TestResult(Fin(0),
                                    [kind |-> where, err |-> e, warnings |-> {}]),
              !.failed_at = r.i]

\* np.mean(scores): the mean of an empty list is NaN (with a RuntimeWarning)
RECURSIVE FSum(_)
FSum(xs) == IF xs = <<>> THEN Fin(0) ELSE FAdd(Head(xs), FSum(Tail(xs)))

mean(xs) == FDiv(FSum(xs), Fin(Len(xs)))

\* cls_to_test(*constructor_input) raises
Run_ConstructRaises ==
    /\ run.pc = "loop" /\ run.i < run.n_records
    /\ \E e \in CandidateErrors :
         run' = OnCandidateError(
                    [run EXCEPT !.constructed = @ + 1], "instantiation", e)
    /\ UNCHANGED <<call, best, gen>>

\* the constructor returns, getattr(cls_to_test, name)() raises
Run_SolveRaises ==
    /\ run.pc = "loop" /\ run.i < run.n_records
    /\ \E e \in CandidateErrors :
         run' = OnCandidateError(
                    [run EXCEPT !.constructed = @ + 1, !.solved = @ + 1],
                    "test", e)
    /\ UNCHANGED <<call, best, gen>>

\* the candidate returns a solution and compute_score returns: the score is
\* appended and the loop goes on
Run_Score ==
    /\ run.pc = "loop" /\ run.i < run.n_records
    /\ \E adj \in RunGraphs :
       \E target_solution \in TourValues(adj.n), solution \in TourValues(adj.n) :
         LET o == compute_score(adj, solution, target_solution)
         IN  /\ ~Raised(o)
             /\ run' = [run EXCEPT
                    !.constructed = @ + 1, !.solved = @ + 1,
                    !.scores = Append(@, FMul(o.val, 100)),
                    !.warnings = IF o.warn THEN @ \cup {NotHamiltonian} ELSE @,
                    !.i = @ + 1]
    /\ UNCHANGED <<call, best, gen>>

\* the candidate returns a solution and compute_score raises: nothing in
\* run catches it
Run_ScoreRaises ==
    /\ run.pc = "loop" /\ run.i < run.n_records
    /\ \E adj \in RunGraphs :
       \E target_solution \in TourValues(adj.n), solution \in TourValues(adj.n) :
         LET o == compute_score(adj, solution, target_solution)
         IN  /\ Raised(o)
             /\ run' = [run EXCEPT
                    !.constructed = @ + 1, !.solved = @ + 1,
                    !.pc = "raised", !.exc = o.exc,
                    !.raised_on = <<adj, solution, target_solution>>]
    /\ UNCHANGED <<call, best, gen>>

\* after the loop: the warnings message, the mean score, the result
Run_Finish ==
    /\ run.pc = "loop" /\ run.i = run.n_records
    /\ run' = [run EXCEPT
           !.pc = "returned",
           !.result = TestResult(
               mean(run.scores),
               IF run.warnings # {}
               THEN [kind |-> "warnings", err |-> "", warnings |-> run.warnings]
               ELSE NoMessage)]
    /\ UNCHANGED <<call, best, gen>>

InitRun ==
    /\ call = IdleCall(NoGraph)
    /\ run \in {InitialRun(n) : n \in 0..MaxRecords}
    /\ best = IdleBest
    /\ gen = IdleGen

NextRun ==
    \/ Run_ConstructRaises
    \/ Run_SolveRaises
    \/ Run_Score
    \/ Run_ScoreRaises
    \/ Run_Finish

SpecRun == InitRun /\ [][NextRun]_vars

\* C3: once the constructor or the solving method has raised on a record,
\* run has returned a result of 0.0 percent whose message carries that
\* error, that record is the last one constructed, and neither it nor any
\* later record was scored, whatever scores the earlier records obtained.
C3_FailFast ==
    run.pc # "idle" /\ (run.failed_at >= 0 \/ run.result.message.err # "") =>
        /\ run.pc = "returned"
        /\ run.failed_at = run.i
        /\ run.result.percent_value = Fin(0)
        /\ run.result.message.kind \in {"instantiation", "test"}
        /\ run.result.message.err \in CandidateErrors
        /\ run.constructed = run.failed_at + 1
        /\ run.solved \in {run.failed_at, run.failed_at + 1}
        /\ run.solved = run.failed_at + 1 <=> run.result.message.kind = "test"
        /\ Len(run.scores) = run.failed_at

\* A record raised after earlier records had been scored above zero.
C3_Witness ==
    /\ run.pc = "returned"
    /\ run.failed_at >= 1
    /\ \E k \in 1..Len(run.scores) : FLess(Fin(0), run.scores[k])
    /\ run.result.percent_value = Fin(0)
    /\ run.result.message.err \in CandidateErrors

\* C4: run always ends by returning a TestResult with a numeric percentage
\* or a zero result with an error message: no exception leaves run and the
\* returned percent_value is never NaN.
C4_AlwaysNumericResult ==
    run.pc # "idle" =>
        /\ run.pc # "raised"
        /\ run.pc = "returned" => ~isnan(run.result.percent_value)

(***************************************************************************)
(* gen_datum: gen_random_graph, then gen_best_solution over the methods.   *)
(* A method is a name that nx_tsp_app does not have, a method that raises, *)
(* or a method for which traveling_salesman_problem returns a cycle.  One  *)
(* action is gen_random_graph, one pass of gen_best_solution's loop body,  *)
(* or its return.  best_method is the position of the method in the list   *)
(* (0 for None).                                                           *)
(***************************************************************************)
MaxMethods == 3

DatumGraphs == SmallGraphs(MinNodes) \cup SmallGraphs(MinNodes + 1)

KnownGraphMethods == {"random", "geometric"}
GraphMethods == KnownGraphMethods \cup {"grid", "callable"}

IsString(method) == method # "callable"

\* gen_random_graph: an unknown name raises before any graph is made; the
\* named strategies make finite non-negative weights, a callable anything
gen_random_graph(method) ==
    IF IsString(method) /\ method \notin KnownGraphMethods
    THEN {[exc |-> "ValueError", adj |-> NoGraph]}
    ELSE {[exc |-> "none", adj |-> g] :
            g \in {h \in DatumGraphs :
                     method = "callable"
                     \/ \A p \in DOMAIN h.w :
                          p[1] # p[2] => isfinite(h.w[p]) /\ ~FLess(h.w[p], Fin(0))}}

\* what traveling_salesman_problem hands back when it joins shortest paths
\* through a node already visited: 0, 1, ..., n-1, n-2, ..., 0
BackAndForth(n) ==
    [k \in 1..(2 * n - 1) |-> IF k <= n THEN k - 1 ELSE 2 * n - 1 - k]

Cycles(n) ==
    ClosedTours(n)
    \cup {BackAndForth(n),
          SubSeq(IdTour(n), 1, n),           \* an open path
          [IdTour(n) EXCEPT ![n] = n]}       \* a node the matrix lacks

MethodsOf(n) ==
    {[kind |-> "unknown_name", cycle |-> <<>>],
     [kind |-> "raises", cycle |-> <<>>]}
    \cup {[kind |-> "returns", cycle |-> t] : t \in Cycles(n)}

MethodsTable == [n \in MinNodes..(MinNodes + 1) |-> MethodsOf(n)]

Methods(n) == MethodsTable[n]

InitialBest(m, n) ==
    [pc |-> "gen_random_graph", graph_init_method |-> m, adj |-> NoGraph,
     n_methods |-> n, k |-> 0, tried |-> <<>>,
     best_cost |-> Inf, best_path |-> PyNone, best_method |-> 0,
     exc |-> "none"]

\* Mutant: if cost <= best_cost.
Improves_or_equals(cost, best_cost) == ~FLess(best_cost, cost)

\* if cost < best_cost
Improves(cost, best_cost) == FLess(cost, best_cost)

\* the outcome of the try block for one method: the error caught, or the cost
TryMethod(adj, method) ==
    IF method.kind = "unknown_name" THEN Raise("AttributeError")
    ELSE IF method.kind = "raises" THEN Raise("NetworkXError")
    ELSE get_path_cost(adj, PySeq(method.cycle))

Datum_gen_random_graph ==
    /\ best.pc = "gen_random_graph"
    /\ \E o \in gen_random_graph(best.graph_init_method) :
         best' = [best EXCEPT
                    !.pc = IF o.exc = "none" THEN "loop" ELSE "raised",
                    !.exc = o.exc,
                    !.adj = o.adj]
    /\ UNCHANGED <<call, run, gen>>

\* the try block raises (getattr, the method itself, or get_path_cost) and
\* the except clause prints and goes on
Best_MethodFails ==
    /\ best.pc = "loop" /\ best.k < best.n_methods
    /\ \E method \in Methods(best.adj.n) :
         /\ Raised(TryMethod(best.adj, method))
         /\ best' = [best EXCEPT !.k = @ + 1, !.tried = Append(@, method)]
    /\ UNCHANGED <<call, run, gen>>

\* the method returns a cycle cheaper than the best so far
Best_MethodImproves ==
    /\ best.pc = "loop" /\ best.k < best.n_methods
    /\ \E method \in Methods(best.adj.n) :
         LET o == TryMethod(best.adj, method) IN
         /\ ~Raised(o)
         /\ Improves(o.val, best.best_cost)
         /\ best' = [best EXCEPT !.k = @ + 1, !.tried = Append(@, method),
                                 !.best_cost = o.val,
                                 !.best_path = PySeq(method.cycle),
                                 !.best_method = best.k + 1]
    /\ UNCHANGED <<call, run, gen>>

\* the method returns a cycle that is not cheaper
Best_MethodKeeps ==
    /\ best.pc = "loop" /\ best.k < best.n_methods
    /\ \E method \in Methods(best.adj.n) :
         LET o == TryMethod(best.adj, method) IN
         /\ ~Raised(o)
         /\ ~Improves(o.val, best.best_cost)
         /\ best' = [best EXCEPT !.k = @ + 1, !.tried = Append(@, method)]
    /\ UNCHANGED <<call, run, gen>>

\* return best_path, best_cost, best_method
Best_Return ==
    /\ best.pc = "loop" /\ best.k = best.n_methods
    /\ best' = [best EXCEPT !.pc = "returned"]
    /\ UNCHANGED <<call, run, gen>>

InitDatum ==
    /\ call = IdleCall(NoGraph)
    /\ run = IdleRun
    /\ best \in {InitialBest(m, n) : m \in GraphMethods, n \in 0..MaxMethods}
    /\ gen = IdleGen

NextDatum ==
    \/ Datum_gen_random_graph
    \/ Best_MethodFails
    \/ Best_MethodImproves
    \/ Best_MethodKeeps
    \/ Best_Return

SpecDatum == InitDatum /\ [][NextDatum]_vars

\* The outcome of each method tried, by position.
Outcomes == [k \in 1..Len(best.tried) |-> TryMethod(best.adj, best.tried[k])]

\* The positions whose method ran to a finite cost.
FiniteCosted(o) == {k \in DOMAIN o : ~Raised(o[k]) /\ FLess(o[k].val, Inf)}

FirstCheapest(o, F) ==
    CHOOSE k \in F :
        /\ \A j \in F : ~FLess(o[j].val, o[k].val)
        /\ \A j \in F : j < k => FLess(o[k].val, o[j].val)

\* C7: gen_best_solution never raises: it tries every method in order, also
\* after earlier ones raised, and returns the tour, cost and method of the
\* first method whose cost is the minimum over the methods that did not
\* raise, or (None, +inf, None) when no method gives a finite cost.
C7_FirstMinimum ==
    /\ best.pc \in {"loop", "returned"} => best.exc = "none"
    /\ best.pc = "returned" =>
        LET o == Outcomes
            F == FiniteCosted(o)
            m == FirstCheapest(o, F)
        IN  /\ Len(best.tried) = best.n_methods
            /\ IF F = {}
               THEN /\ best.best_path = PyNone
                    /\ best.best_cost = Inf
                    /\ best.best_method = 0
               ELSE /\ best.best_method = m
                    /\ best.best_cost = o[m].val
                    /\ best.best_path = PySeq(best.tried[m].cycle)

\* After a method that raised, gen_best_solution went on and returned the
\* earlier of two methods of equal minimum cost.
C7_Witness ==
    /\ best.pc = "returned"
    /\ LET o == Outcomes
           F == FiniteCosted(o)
       IN  /\ \E k \in DOMAIN o : k < best.best_method /\ Raised(o[k])
           /\ \E j, k \in F :
                 /\ j < k /\ j = best.best_method
                 /\ o[j].val = o[k].val
                 /\ best.tried[j].cycle # best.tried[k].cycle

\* A closed walk over the graph's nodes that visits every node.
ClosedWalk(n, c) ==
    /\ Len(c) >= 1 /\ c[1] = c[Len(c)]
    /\ {c[k] : k \in 1..Len(c)} = Nodes(n)

\* C8: a tour returned by gen_best_solution that is not None has length n+1
\* and its first element equals its last (stated here for methods that all
\* returned closed walks visiting every node).
C8_ReturnedTourClosed ==
    best.pc = "returned" /\ best.best_path # PyNone
        /\ (\A k \in 1..Len(best.tried) :
                best.tried[k].kind = "returns" =>
                    ClosedWalk(best.adj.n, best.tried[k].cycle)) =>
        /\ Len(best.best_path.seq) = best.adj.n + 1
        /\ best.best_path.seq[1] = best.best_path.seq[Len(best.best_path.seq)]

\* C9: an unknown strategy name is an error for the caller: gen_random_graph
\* raises on an unknown generation strategy before generating a graph, and
\* gen_best_solution given an unknown method name raises instead of
\* returning a result.
C9_UnknownNameRaises ==
    /\ best.pc \notin {"idle", "gen_random_graph"}
         /\ best.graph_init_method \notin KnownGraphMethods \cup {"callable"} =>
            best.pc = "raised" /\ best.exc = "ValueError" /\ best.adj = NoGraph
    /\ best.pc = "returned" =>
            \A k \in 1..Len(best.tried) : best.tried[k].kind # "unknown_name"

\* The gen_random_graph half of C9 alone.
C9_UnknownGraphMethodRaises ==
    best.pc \notin {"idle", "gen_random_graph"}
         /\ best.graph_init_method \notin KnownGraphMethods \cup {"callable"} =>
            best.pc = "raised" /\ best.exc = "ValueError" /\ best.adj = NoGraph

(***************************************************************************)
(* gen_dataset.  The staging directory temp is a set of files, each with   *)
(* its name (the index i of "<i>.pkl") and the datum pickled in it; a      *)
(* datum is known by the run and the seed that made it.  A run lists the directory, hands the    *)
(* units of work to a pool of nb_workers processes, each unit writing its  *)
(* own file, and merges when the pool is done.  A run may also be          *)
(* interrupted while units are outstanding.  existed, written, clobbered,  *)
(* clean and total record what the runs did, for the claims.               *)
(***************************************************************************)
MaxRuns == 2
MaxData == 2
MaxWorkers == 2

EmptyFolder == {}

os_listdir(temp) == {f.name : f \in temp}

\* pickle.load(open(os.path.join(temp_folder, filename), "rb"))
pickle_load(temp, filename) == (CHOOSE f \in temp : f.name = filename).datum

\* Mutant: the file is named by the record index alone.
save_path_no_offset(i, temp_start_idx) == i

\* os.path.join(temp_folder, f"{i+temp_start_idx}.pkl")
save_path(i, temp_start_idx) == i + temp_start_idx

\* with open(save_path, "wb") as f: pickle.dump(datum, f)
pickle_dump(temp, path, datum) ==
    {f \in temp : f.name # path} \cup {[name |-> path, datum |-> datum]}

\* Mutant: the merge leaves out the file the listing gives first.
gather_all_data_skip_first(temp) ==
    LET files == os_listdir(temp)
        rest == IF files = {} THEN {}
                ELSE files \ {CHOOSE f \in files : \A g \in files : f <= g}
        all_data == [d \in {pickle_load(temp, f) : f \in rest} |->
                        Cardinality({f \in rest : pickle_load(temp, f) = d})]
    IN  [exc |-> "none",
         all_data |-> all_data,
         warnings |-> IF rest = {} THEN {"Empty temp folder"} ELSE {},
         saved |-> rest # {}]

\* gather_all_data_from_temp_folder: one record per file listed (held as the
\* number of times each record occurs: the listing order is the file
\* system's), a warning and no saved file when there is none
EmptyWarning == "Empty temp folder"

gather_all_data_from_temp_folder(temp) ==
    LET files == os_listdir(temp)
        all_data == [d \in {pickle_load(temp, f) : f \in files} |->
                        Cardinality({f \in files : pickle_load(temp, f) = d})]
    IN  [exc |-> "none",
         all_data |-> all_data,
         warnings |-> IF files = {} THEN {EmptyWarning} ELSE {},
         saved |-> files # {}]

NoData == [d \in {} |-> 0]

InitialGen ==
    [pc |-> "idle", temp |-> EmptyFolder, runs |-> 0, n_data |-> 0,
     nb_workers |-> 1, rm_temp_folder |-> FALSE, temp_start_idx |-> 0,
     next |-> 0, running |-> {}, completed |-> 0,
     all_data |-> NoData, data_file |-> NoData, warnings |-> {}, exc |-> "none",
     existed |-> {}, written |-> {}, rewritten |-> {}, clobbered |-> {},
     clean |-> TRUE, total |-> 0]

\* gen_dataset up to the pool: rmtree when asked, makedirs, listdir
Gen_Start ==
    /\ gen.pc \in {"idle", "returned", "interrupted"}
    /\ gen.runs < MaxRuns
    /\ \E n_data \in 0..MaxData, nb_workers \in 1..MaxWorkers,
          rm_temp_folder \in BOOLEAN :
         LET temp == IF rm_temp_folder THEN EmptyFolder ELSE gen.temp
         IN  gen' = [gen EXCEPT
                !.pc = "pool", !.temp = temp, !.runs = @ + 1,
                !.n_data = n_data, !.nb_workers = nb_workers,
                !.rm_temp_folder = rm_temp_folder,
                !.temp_start_idx = Cardinality(os_listdir(temp)),
                !.next = 0, !.running = {}, !.completed = 0,
                !.all_data = NoData, !.warnings = {},
                !.existed = os_listdir(temp), !.written = {},
                !.rewritten = {}, !.clobbered = {},
                !.clean = @ /\ ~rm_temp_folder /\ gen.pc # "interrupted",
                !.total = @ + n_data]
    /\ UNCHANGED <<call, run, best>>

\* a free process of the pool takes the next unit of work
Gen_Dispatch ==
    /\ gen.pc = "pool"
    /\ gen.next < gen.n_data
    /\ Cardinality(gen.running) < gen.nb_workers
    /\ gen' = [gen EXCEPT !.running = @ \cup {gen.next}, !.next = @ + 1]
    /\ UNCHANGED <<call, run, best>>

\* a unit of work ends: gen_datum has written its file
Gen_Worker ==
    /\ gen.pc = "pool"
    /\ \E i \in gen.running :
         LET path == save_path(i, gen.temp_start_idx)
             datum == [run |-> gen.runs, seed |-> i]
         IN  gen' = [gen EXCEPT
                !.temp = pickle_dump(@, path, datum),
                !.running = @ \ {i},
                !.completed = @ + 1,
                !.written = @ \cup {path},
                !.rewritten = IF path \in gen.written THEN @ \cup {path} ELSE @,
                !.clobbered = IF path \in gen.existed THEN @ \cup {path} ELSE @]
    /\ UNCHANGED <<call, run, best>>

\* the run is stopped while units of work are outstanding
Gen_Interrupt ==
    /\ gen.pc = "pool"
    /\ gen.completed < gen.n_data
    /\ gen' = [gen EXCEPT !.pc = "interrupted", !.running = {},
                          !.clean = FALSE]
    /\ UNCHANGED <<call, run, best>>

\* the pool is done: return gather_all_data_from_temp_folder(temp_folder, filepath)
Gen_Merge ==
    /\ gen.pc = "pool"
    /\ gen.next = gen.n_data /\ gen.running = {}
    /\ LET o == gather_all_data_from_temp_folder(gen.temp)
       IN  gen' = [gen EXCEPT
              !.pc = IF o.exc = "none" THEN "returned" ELSE "raised",
              !.exc = o.exc,
              !.all_data = o.all_data,
              !.data_file = IF o.saved THEN o.all_data ELSE @,
              !.warnings = o.warnings]
    /\ UNCHANGED <<call, run, best>>

InitGen ==
    /\ call = IdleCall(NoGraph)
    /\ run = IdleRun
    /\ best = IdleBest
    /\ gen = InitialGen

NextGen ==
    \/ Gen_Start
    \/ Gen_Dispatch
    \/ Gen_Worker
    \/ Gen_Interrupt
    \/ Gen_Merge

SpecGen == InitGen /\ [][NextGen]_vars

\* C5: while every run so far ran to completion and none removed the
\* staging directory, no two workers of a run wrote the same file, no run
\* wrote a file that existed when it started, and after the runs the
\* directory holds as many files as the runs' n_data add up to.
C5_AppendOnly ==
    gen.pc # "idle" /\ gen.clean =>
        /\ gen.rewritten = {}
        /\ gen.clobbered = {}
        /\ gen.written \cap gen.existed = {}
        /\ Cardinality(gen.written) = gen.completed
        /\ gen.pc = "returned" =>
               Cardinality(os_listdir(gen.temp)) = gen.total

\* A second complete run has added its files past those of the first.
C5_Witness ==
    /\ gen.pc = "returned" /\ gen.clean /\ gen.runs = 2
    /\ gen.existed # {} /\ gen.n_data = MaxData /\ gen.nb_workers > 1
    /\ Cardinality(os_listdir(gen.temp)) = Cardinality(gen.existed) + gen.n_data

\* C6: a run that does not remove the staging directory never overwrites a
\* file that was there when it started, also after an interrupted run.
C6_NeverOverwrites ==
    gen.pc # "idle" /\ ~gen.rm_temp_folder =>
        /\ gen.clobbered = {}
        /\ \A f \in gen.existed : f \in os_listdir(gen.temp)
                                  /\ pickle_load(gen.temp, f).run < gen.runs

\* C10: the merge runs only when every unit of work has completed; its
\* dataset has exactly one record for each file of the staging directory,
\* earlier runs' files included; on an empty directory it returns an empty
\* dataset with a warning and does not fail.
C10_MergeAfterWorkers ==
    /\ gen.pc # "raised" /\ gen.exc = "none"
    /\ gen.pc = "pool" => gen.all_data = NoData
    /\ gen.pc = "returned" =>
        /\ gen.completed = gen.n_data /\ gen.running = {}
        /\ \A f \in gen.temp :
               /\ f.datum \in DOMAIN gen.all_data
               /\ gen.all_data[f.datum] = 1
        /\ \A d \in DOMAIN gen.all_data : \E f \in gen.temp : f.datum = d
        /\ os_listdir(gen.temp) = {} <=> gen.warnings = {EmptyWarning}
        /\ os_listdir(gen.temp) = {} => gen.all_data = NoData
        /\ os_listdir(gen.temp) # {} => gen.data_file = gen.all_data

\* A run merged its own files with files of an earlier run.
C10_Witness ==
    /\ gen.pc = "returned" /\ gen.runs = 2
    /\ gen.existed # {} /\ gen.written # {}
    /\ \A f \in gen.existed \cup gen.written :
          pickle_load(gen.temp, f) \in DOMAIN gen.all_data

====
